---- MODULE Spec2Model ----
(***************************************************************************)
(* Model of examples/00_quick_start/sar_movielens_with_azureml.ipynb: the  *)
(* notebook's cells executed top to bottom against an AzureML workspace,   *)
(* and the remote run of the train.py it generates.                        *)
(*                                                                         *)
(* The notebook is one sequential process (pc is the cell, or the SDK call *)
(* inside the compute-target cell, about to execute).  The remote run is a *)
(* second process, started by exp.submit, that walks through train.py.     *)
(* An SDK call or a file operation either returns or raises; an exception  *)
(* that no try/except catches stops the notebook's execution.              *)
(***************************************************************************)
EXTENDS Naturals, Sequences, FiniteSets, TLC

VARIABLES
    pc,             \* the notebook operation about to execute, "done" or "failed"
    log,            \* the operations executed so far: <<[op, ok]>>
    TOP_K,          \* parameters cell
    MOVIELENS_DATA_SIZE,
    lib_top_k,      \* recommend_k_items' own default for top_k: set by reco_utils,
                    \* not by the notebook, so any value of the range
    wsExists,       \* the workspace exists in the subscription
    ws,             \* the notebook holds a Workspace handle
    cwdFiles,       \* files in the notebook's working directory
    tmp_dir,        \* "none", "open" or "cleaned"
    tmpFiles,       \* paths below tmp_dir.name
    datastore,      \* blob paths in the workspace's default datastore
    clusters,       \* names of the compute targets of the workspace
    compute_target, \* the notebook's compute_target ("none" before the cell)
    createCalls,    \* the ComputeTarget.create calls issued
    waitCalls,      \* the wait_for_completion calls issued
    script_params,  \* the Estimator's script_params (<<>> before the cell)
    runStatus,      \* the remote run: NotSubmitted, Queued, Running, Completed, Failed
    runStep,        \* the remote run's position in train.py
    runParams,      \* the arguments the remote invocation passes to train.py
    args,           \* train.py: the parsed arguments (<<>> before parse_args)
    recK,           \* train.py: items per user requested from recommend_k_items
    evalK,          \* train.py: the k of map, ndcg, precision and recall
    runMetrics,     \* the names logged to the run with run.log
    metrics,        \* the notebook's metrics = run.get_metrics()
    ciEvents,       \* CI: the pull requests and commits seen: <<[kind, branch]>>
    ciBuilds        \* CI: the builds started: <<[kind, branch, event]>>

ciVars == <<ciEvents, ciBuilds>>

programVars == <<pc, log, TOP_K, MOVIELENS_DATA_SIZE, lib_top_k, wsExists, ws,
                 cwdFiles, tmp_dir, tmpFiles, datastore, clusters, compute_target,
                 createCalls, waitCalls, script_params, runStatus, runStep,
                 runParams, args, recK, evalK, runMetrics, metrics>>

vars == <<programVars, ciVars>>

notebookVars == <<TOP_K, MOVIELENS_DATA_SIZE, lib_top_k>>
cloudVars == <<wsExists, datastore, clusters>>
runVars == <<runStatus, runStep, runParams, args, recK, evalK, runMetrics>>

(***************************************************************************)
(* Bounds and program constants                                            *)
(***************************************************************************)
MaxTopK == 3

TOP_K_DEFAULT == 10
MIN_NODES == 0
MAX_NODES == 2
VM_SIZE == "STANDARD_D2_V2"
CLUSTER_NAME == "cpucluster"
TARGET_DIR == "movielens"
CONFIG_FILE == "aml_config/config.json"

TopKValues == (1..MaxTopK) \cup {TOP_K_DEFAULT}
DataSizes == {"100k", "1m"}
OtherClusters == {"gpucluster"}

DataFileName(size) == "movielens_" \o size \o "_data.pkl"

SCRIPT_DIR == "movielens-sar"
TRAIN_FILE == SCRIPT_DIR \o "/train.py"
UTILS_DIR == SCRIPT_DIR \o "/reco_utils"

(***************************************************************************)
(* The order of the cells.  The compute-target cell is three SDK calls:    *)
(* the lookup, and in its except branch create and wait_for_completion.    *)
(***************************************************************************)
Ops == {"workspace", "tmpdir", "load_data", "upload", "lookup", "create", "wait",
        "script_dir", "write_train", "copy_utils", "estimator", "submit",
        "monitor", "show_run", "get_metrics", "cleanup"}

\* A faulty order: the compute target is looked up before the upload.
NextCellSwapped(op) ==
    CASE op = "workspace"   -> "tmpdir"
      [] op = "tmpdir"      -> "load_data"
      [] op = "load_data"   -> "lookup"
      [] op = "lookup"      -> "upload"
      [] op = "create"      -> "wait"
      [] op = "wait"        -> "upload"
      [] op = "upload"      -> "script_dir"
      [] op = "script_dir"  -> "write_train"
      [] op = "write_train" -> "copy_utils"
      [] op = "copy_utils"  -> "estimator"
      [] op = "estimator"   -> "submit"
      [] op = "submit"      -> "monitor"
      [] op = "monitor"     -> "show_run"
      [] op = "show_run"    -> "get_metrics"
      [] op = "get_metrics" -> "cleanup"
      [] op = "cleanup"     -> "done"

NextCell(op) ==
    CASE op = "workspace"   -> "tmpdir"
      [] op = "tmpdir"      -> "load_data"
      [] op = "load_data"   -> "upload"
      [] op = "upload"      -> "lookup"
      [] op = "lookup"      -> "script_dir"
      [] op = "create"      -> "wait"
      [] op = "wait"        -> "script_dir"
      [] op = "script_dir"  -> "write_train"
      [] op = "write_train" -> "copy_utils"
      [] op = "copy_utils"  -> "estimator"
      [] op = "estimator"   -> "submit"
      [] op = "submit"      -> "monitor"
      [] op = "monitor"     -> "show_run"
      [] op = "show_run"    -> "get_metrics"
      [] op = "get_metrics" -> "cleanup"
      [] op = "cleanup"     -> "done"

\* The call returned: execution goes on with the next operation.
Return(op) ==
    /\ pc' = NextCell(op)
    /\ log' = Append(log, [op |-> op, ok |-> TRUE])

\* A faulty handler: the failed operation is attempted again.
RaiseRetry(op) ==
    /\ pc' = op
    /\ log' = Append(log, [op |-> op, ok |-> FALSE])

\* The call raised and nothing catches it: the notebook's execution stops.
Raise(op) ==
    /\ pc' = "failed"
    /\ log' = Append(log, [op |-> op, ok |-> FALSE])

Init ==
    /\ pc = "workspace"
    /\ log = <<>>
    /\ TOP_K \in TopKValues
    /\ MOVIELENS_DATA_SIZE \in DataSizes
    /\ lib_top_k \in TopKValues
    /\ wsExists \in BOOLEAN
    /\ ws = FALSE
    /\ cwdFiles = {}
    /\ tmp_dir = "none"
    /\ tmpFiles = {}
    /\ datastore = {}
    /\ clusters \in SUBSET ({CLUSTER_NAME} \cup OtherClusters)
    /\ compute_target = "none"
    /\ createCalls = <<>>
    /\ waitCalls = 0
    /\ script_params = <<>>
    /\ runStatus = "NotSubmitted"
    /\ runStep = "none"
    /\ runParams = <<>>
    /\ args = <<>>
    /\ recK = 0
    /\ evalK = 0
    /\ runMetrics = {}
    /\ metrics = {}
    /\ ciEvents = <<>>
    /\ ciBuilds = <<>>

(***************************************************************************)
(* The notebook's cells                                                    *)
(***************************************************************************)

\* ws = Workspace.create(..., exist_ok=True): gets the workspace, or creates it.
\* Nothing in the cell writes the configuration (there is no ws.write_config()).
WorkspaceCreate ==
    /\ pc = "workspace"
    /\ wsExists' = TRUE
    /\ ws' = TRUE
    /\ Return("workspace")
    /\ UNCHANGED <<ciVars, notebookVars, cwdFiles, tmp_dir, tmpFiles, datastore, clusters,
                   compute_target, createCalls, waitCalls, script_params, runVars,
                   metrics>>

\* tmp_dir = TemporaryDirectory()
CreateTmpDir ==
    /\ pc = "tmpdir"
    /\ tmp_dir' = "open"
    /\ tmpFiles' = {}
    /\ Return("tmpdir")
    /\ UNCHANGED <<ciVars, notebookVars, cloudVars, ws, cwdFiles, compute_target,
                   createCalls, waitCalls, script_params, runVars, metrics>>

\* data = movielens.load_pandas_df(...); data.to_pickle(tmp_dir.name/data_file_name)
LoadData ==
    /\ pc = "load_data"
    /\ tmpFiles' = tmpFiles \cup {DataFileName(MOVIELENS_DATA_SIZE)}
    /\ Return("load_data")
    /\ UNCHANGED <<ciVars, notebookVars, cloudVars, ws, cwdFiles, tmp_dir, compute_target,
                   createCalls, waitCalls, script_params, runVars, metrics>>

\* ds.upload(src_dir=tmp_dir.name, target_path=TARGET_DIR, overwrite=True)
UploadPath(f) == TARGET_DIR \o "/" \o f

Upload ==
    /\ pc = "upload"
    /\ datastore' = datastore \cup {UploadPath(f) : f \in tmpFiles}
    /\ Return("upload")
    /\ UNCHANGED <<ciVars, notebookVars, wsExists, clusters, ws, cwdFiles, tmp_dir, tmpFiles,
                   compute_target, createCalls, waitCalls, script_params, runVars,
                   metrics>>

(***************************************************************************)
(* The compute-target cell:                                                *)
(*   try:    compute_target = ComputeTarget(workspace=ws, name=CLUSTER_NAME)*)
(*   except: compute_config = AmlCompute.provisioning_configuration(...)   *)
(*           compute_target = ComputeTarget.create(ws, CLUSTER_NAME, ...)  *)
(*           compute_target.wait_for_completion(...)                       *)
(***************************************************************************)
ProvisioningConfiguration ==
    [name |-> CLUSTER_NAME, vm_size |-> VM_SIZE, min_nodes |-> MIN_NODES,
     max_nodes |-> MAX_NODES]

\* The lookup raises: the cluster does not exist, or any other error (the
\* except clause is bare).  Execution continues in the except branch.
ComputeTargetLookupFails ==
    /\ pc = "lookup"
    /\ pc' = "create"
    /\ log' = Append(log, [op |-> "lookup", ok |-> FALSE])
    /\ UNCHANGED <<ciVars, notebookVars, cloudVars, ws, cwdFiles, tmp_dir, tmpFiles,
                   compute_target, createCalls, waitCalls, script_params, runVars,
                   metrics>>

\* A faulty try branch: the cluster found is created again.
ComputeTargetFoundAndCreate ==
    /\ pc = "lookup"
    /\ CLUSTER_NAME \in clusters
    /\ compute_target' = CLUSTER_NAME
    /\ createCalls' = Append(createCalls, ProvisioningConfiguration)
    /\ Return("lookup")
    /\ UNCHANGED <<ciVars, notebookVars, cloudVars, ws, cwdFiles, tmp_dir, tmpFiles,
                   waitCalls, script_params, runVars, metrics>>

\* The lookup returns the existing cluster.
ComputeTargetFound ==
    /\ pc = "lookup"
    /\ CLUSTER_NAME \in clusters
    /\ compute_target' = CLUSTER_NAME
    /\ Return("lookup")
    /\ UNCHANGED <<ciVars, notebookVars, cloudVars, ws, cwdFiles, tmp_dir, tmpFiles,
                   createCalls, waitCalls, script_params, runVars, metrics>>

\* A faulty except branch: create without wait_for_completion.
ComputeTargetCreateNoWait ==
    /\ pc = "create"
    /\ createCalls' = Append(createCalls, ProvisioningConfiguration)
    /\ clusters' = clusters \cup {CLUSTER_NAME}
    /\ compute_target' = CLUSTER_NAME
    /\ pc' = NextCell("wait")
    /\ log' = Append(log, [op |-> "create", ok |-> TRUE])
    /\ UNCHANGED <<ciVars, notebookVars, wsExists, datastore, ws, cwdFiles, tmp_dir,
                   tmpFiles, waitCalls, script_params, runVars, metrics>>

ComputeTargetCreate ==
    /\ pc = "create"
    /\ createCalls' = Append(createCalls, ProvisioningConfiguration)
    /\ clusters' = clusters \cup {CLUSTER_NAME}
    /\ compute_target' = CLUSTER_NAME
    /\ Return("create")
    /\ UNCHANGED <<ciVars, notebookVars, wsExists, datastore, ws, cwdFiles, tmp_dir,
                   tmpFiles, waitCalls, script_params, runVars, metrics>>

WaitForCompletion ==
    /\ pc = "wait"
    /\ waitCalls' = waitCalls + 1
    /\ Return("wait")
    /\ UNCHANGED <<ciVars, notebookVars, cloudVars, ws, cwdFiles, tmp_dir, tmpFiles,
                   compute_target, createCalls, script_params, runVars, metrics>>

(***************************************************************************)
(* Training script and its directory                                       *)
(***************************************************************************)
\* SCRIPT_DIR = os.path.join(tmp_dir.name, 'movielens-sar'); os.makedirs(...)
MakeScriptDir ==
    /\ pc = "script_dir"
    /\ tmpFiles' = tmpFiles \cup {SCRIPT_DIR}
    /\ Return("script_dir")
    /\ UNCHANGED <<ciVars, notebookVars, cloudVars, ws, cwdFiles, tmp_dir, compute_target,
                   createCalls, waitCalls, script_params, runVars, metrics>>

\* A faulty path: train.py written relative to the working directory.
WriteTrainFileCwd ==
    /\ pc = "write_train"
    /\ cwdFiles' = cwdFiles \cup {"train.py"}
    /\ Return("write_train")
    /\ UNCHANGED <<ciVars, notebookVars, cloudVars, ws, tmp_dir, tmpFiles,
                   compute_target, createCalls, waitCalls, script_params, runVars,
                   metrics>>

\* %%writefile $TRAIN_FILE
WriteTrainFile ==
    /\ pc = "write_train"
    /\ tmpFiles' = tmpFiles \cup {TRAIN_FILE}
    /\ Return("write_train")
    /\ UNCHANGED <<ciVars, notebookVars, cloudVars, ws, cwdFiles, tmp_dir, compute_target,
                   createCalls, waitCalls, script_params, runVars, metrics>>

\* if os.path.exists(UTILS_DIR): shutil.rmtree(UTILS_DIR); shutil.copytree(...)
CopyUtils ==
    /\ pc = "copy_utils"
    /\ tmpFiles' = (tmpFiles \ {UTILS_DIR}) \cup {UTILS_DIR}
    /\ Return("copy_utils")
    /\ UNCHANGED <<ciVars, notebookVars, cloudVars, ws, cwdFiles, tmp_dir, compute_target,
                   createCalls, waitCalls, script_params, runVars, metrics>>

(***************************************************************************)
(* Estimator, submission, monitoring, metrics, cleanup                     *)
(***************************************************************************)
DS_MOUNT == "$AZUREML_DATAREFERENCE"

\* A faulty dictionary: --topk for --top-k.
ScriptParamsTypo(k, size) ==
    ("--data-folder" :> DS_MOUNT)
    @@ ("--data-file" :> "movielens/" \o DataFileName(size))
    @@ ("--topk" :> k)
    @@ ("--data-size" :> size)

ScriptParams(k, size) ==
    ("--data-folder" :> DS_MOUNT)
    @@ ("--data-file" :> "movielens/" \o DataFileName(size))
    @@ ("--top-k" :> k)
    @@ ("--data-size" :> size)

\* script_params = {...}; est = Estimator(source_directory=SCRIPT_DIR, ...)
MakeEstimator ==
    /\ pc = "estimator"
    /\ script_params' = ScriptParams(TOP_K, MOVIELENS_DATA_SIZE)
    /\ Return("estimator")
    /\ UNCHANGED <<ciVars, notebookVars, cloudVars, ws, cwdFiles, tmp_dir, tmpFiles,
                   compute_target, createCalls, waitCalls, runVars, metrics>>

\* A submission that would wait for the run to complete.
SubmitBlocking ==
    /\ pc = "submit"
    /\ runStatus' = "Completed"
    /\ runStep' = "end"
    /\ runParams' = script_params
    /\ Return("submit")
    /\ UNCHANGED <<ciVars, notebookVars, cloudVars, ws, cwdFiles, tmp_dir, tmpFiles,
                   compute_target, createCalls, waitCalls, script_params, args,
                   recK, evalK, runMetrics, metrics>>

\* exp = Experiment(workspace=ws, name=EXPERIMENT_NAME); run = exp.submit(config=est)
\* The submission is asynchronous: it returns the handle of a run that is queued.
Submit ==
    /\ pc = "submit"
    /\ runStatus' = "Queued"
    /\ runParams' = script_params
    /\ Return("submit")
    /\ UNCHANGED <<ciVars, notebookVars, cloudVars, ws, cwdFiles, tmp_dir, tmpFiles,
                   compute_target, createCalls, waitCalls, script_params, runStep,
                   args, recK, evalK, runMetrics, metrics>>

\* RunDetails(run).show(): the widget is asynchronous, the cell returns at once.
Monitor ==
    /\ pc = "monitor"
    /\ Return("monitor")
    /\ UNCHANGED <<ciVars, notebookVars, cloudVars, ws, cwdFiles, tmp_dir, tmpFiles,
                   compute_target, createCalls, waitCalls, script_params, runVars,
                   metrics>>

\* run
ShowRun ==
    /\ pc = "show_run"
    /\ Return("show_run")
    /\ UNCHANGED <<ciVars, notebookVars, cloudVars, ws, cwdFiles, tmp_dir, tmpFiles,
                   compute_target, createCalls, waitCalls, script_params, runVars,
                   metrics>>

\* metrics = run.get_metrics(): what the run has logged so far.
GetMetrics ==
    /\ pc = "get_metrics"
    /\ metrics' = runMetrics
    /\ Return("get_metrics")
    /\ UNCHANGED <<ciVars, notebookVars, cloudVars, ws, cwdFiles, tmp_dir, tmpFiles,
                   compute_target, createCalls, waitCalls, script_params, runVars>>

\* tmp_dir.cleanup()
Cleanup ==
    /\ pc = "cleanup"
    /\ tmp_dir' = "cleaned"
    /\ tmpFiles' = {}
    /\ Return("cleanup")
    /\ UNCHANGED <<ciVars, notebookVars, cloudVars, ws, cwdFiles, compute_target,
                   createCalls, waitCalls, script_params, runVars, metrics>>

\* Any operation but the lookup raises: no try/except is around it.  A call to
\* ComputeTarget.create or wait_for_completion that raises was still issued.
OpFails ==
    /\ pc \in Ops \ {"lookup"}
    /\ Raise(pc)
    /\ createCalls' = IF pc = "create"
                      THEN Append(createCalls, ProvisioningConfiguration)
                      ELSE createCalls
    /\ waitCalls' = IF pc = "wait" THEN waitCalls + 1 ELSE waitCalls
    /\ UNCHANGED <<ciVars, notebookVars, cloudVars, ws, cwdFiles, tmp_dir, tmpFiles,
                   compute_target, script_params, runVars, metrics>>

(***************************************************************************)
(* The remote run: train.py on the compute target                          *)
(***************************************************************************)
ParserOptions == {"--data-folder", "--data-file", "--top-k", "--data-size"}

\* The add_argument defaults ("None": the option has no default).
ParserDefault(o) ==
    CASE o = "--top-k"     -> 10
      [] o = "--data-size" -> 10
      [] OTHER             -> "None"

\* parser.parse_args(): an argument that is no option of the parser is an error
\* (argparse exits); an option that is not supplied takes its default.
Accepted(argv) == DOMAIN argv \subseteq ParserOptions

ParseArgs(argv) ==
    [o \in ParserOptions |-> IF o \in DOMAIN argv THEN argv[o] ELSE ParserDefault(o)]

\* model.recommend_k_items(test, remove_seen=True): top_k is not passed, the
\* method's own default applies.
RecommendTopK(a) == lib_top_k

\* map_at_k(..., k=args.top_k), and the same for ndcg, precision and recall.
EvalK(a) == a["--top-k"]

Terminal == {"Completed", "Failed"}

\* The compute target starts the run.
RunStart ==
    /\ runStatus = "Queued"
    /\ runStatus' = "Running"
    /\ runStep' = "parse"
    /\ UNCHANGED <<ciVars, pc, log, notebookVars, cloudVars, ws, cwdFiles, tmp_dir, tmpFiles,
                   compute_target, createCalls, waitCalls, script_params, runParams,
                   args, recK, evalK, runMetrics, metrics>>

\* args = parser.parse_args()
RunParseArgs ==
    /\ runStatus = "Running" /\ runStep = "parse"
    /\ IF Accepted(runParams)
       THEN /\ args' = ParseArgs(runParams)
            /\ runStep' = "read"
            /\ UNCHANGED runStatus
       ELSE /\ runStatus' = "Failed"
            /\ UNCHANGED <<args, runStep>>
    /\ UNCHANGED <<ciVars, pc, log, notebookVars, cloudVars, ws, cwdFiles, tmp_dir, tmpFiles,
                   compute_target, createCalls, waitCalls, script_params, runParams,
                   recK, evalK, runMetrics, metrics>>

\* data = pd.read_pickle(os.path.join(args.data_folder, args.data_file)):
\* data_folder is the mounted datastore, data_file a path below its root.
RunReadData ==
    /\ runStatus = "Running" /\ runStep = "read"
    /\ IF args["--data-file"] \in datastore
       THEN runStep' = "log_args" /\ UNCHANGED runStatus
       ELSE runStatus' = "Failed" /\ UNCHANGED runStep
    /\ UNCHANGED <<ciVars, pc, log, notebookVars, cloudVars, ws, cwdFiles, tmp_dir, tmpFiles,
                   compute_target, createCalls, waitCalls, script_params, runParams,
                   args, recK, evalK, runMetrics, metrics>>

\* run.log("top-k", args.top_k); run.log("data-size", args.data_size)
RunLogArgs ==
    /\ runStatus = "Running" /\ runStep = "log_args"
    /\ runMetrics' = runMetrics \cup {"top-k", "data-size"}
    /\ runStep' = "fit"
    /\ UNCHANGED <<ciVars, pc, log, notebookVars, cloudVars, ws, cwdFiles, tmp_dir, tmpFiles,
                   compute_target, createCalls, waitCalls, script_params, runStatus,
                   runParams, args, recK, evalK, metrics>>

\* python_stratified_split; model.fit(train); run.log("Training time", ...)
RunFit ==
    /\ runStatus = "Running" /\ runStep = "fit"
    /\ runMetrics' = runMetrics \cup {"Training time"}
    /\ runStep' = "recommend"
    /\ UNCHANGED <<ciVars, pc, log, notebookVars, cloudVars, ws, cwdFiles, tmp_dir, tmpFiles,
                   compute_target, createCalls, waitCalls, script_params, runStatus,
                   runParams, args, recK, evalK, metrics>>

\* top_k = model.recommend_k_items(test, remove_seen=True); run.log("Prediction time", ...)
RunRecommend ==
    /\ runStatus = "Running" /\ runStep = "recommend"
    /\ recK' = RecommendTopK(args)
    /\ runMetrics' = runMetrics \cup {"Prediction time"}
    /\ runStep' = "eval"
    /\ UNCHANGED <<ciVars, pc, log, notebookVars, cloudVars, ws, cwdFiles, tmp_dir, tmpFiles,
                   compute_target, createCalls, waitCalls, script_params, runStatus,
                   runParams, args, evalK, metrics>>

\* eval_map = map_at_k(..., k=args.top_k) ... eval_recall = recall_at_k(..., k=args.top_k)
RunEvaluate ==
    /\ runStatus = "Running" /\ runStep = "eval"
    /\ evalK' = EvalK(args)
    /\ runStep' = "log_metrics"
    /\ UNCHANGED <<ciVars, pc, log, notebookVars, cloudVars, ws, cwdFiles, tmp_dir, tmpFiles,
                   compute_target, createCalls, waitCalls, script_params, runStatus,
                   runParams, args, recK, runMetrics, metrics>>

\* run.log("map", ...); run.log("ndcg", ...); run.log("precision", ...); run.log("recall", ...)
RunLogMetrics ==
    /\ runStatus = "Running" /\ runStep = "log_metrics"
    /\ runMetrics' = runMetrics \cup {"map", "ndcg", "precision", "recall"}
    /\ runStep' = "save"
    /\ UNCHANGED <<ciVars, pc, log, notebookVars, cloudVars, ws, cwdFiles, tmp_dir, tmpFiles,
                   compute_target, createCalls, waitCalls, script_params, runStatus,
                   runParams, args, recK, evalK, metrics>>

\* joblib.dump(...); run.upload_file(...); the script ends and the run completes.
RunSaveModel ==
    /\ runStatus = "Running" /\ runStep = "save"
    /\ runStatus' = "Completed"
    /\ runStep' = "end"
    /\ UNCHANGED <<ciVars, pc, log, notebookVars, cloudVars, ws, cwdFiles, tmp_dir, tmpFiles,
                   compute_target, createCalls, waitCalls, script_params, runParams,
                   args, recK, evalK, runMetrics, metrics>>

\* The run fails on the platform or in the script (quota, node, library error).
RunFails ==
    /\ runStatus \in {"Queued", "Running"}
    /\ runStatus' = "Failed"
    /\ UNCHANGED <<ciVars, pc, log, notebookVars, cloudVars, ws, cwdFiles, tmp_dir, tmpFiles,
                   compute_target, createCalls, waitCalls, script_params, runStep,
                   runParams, args, recK, evalK, runMetrics, metrics>>

Next ==
    \/ WorkspaceCreate
    \/ CreateTmpDir
    \/ LoadData
    \/ Upload
    \/ ComputeTargetFound
    \/ ComputeTargetLookupFails
    \/ ComputeTargetCreate
    \/ WaitForCompletion
    \/ MakeScriptDir
    \/ WriteTrainFile
    \/ CopyUtils
    \/ MakeEstimator
    \/ Submit
    \/ Monitor
    \/ ShowRun
    \/ GetMetrics
    \/ Cleanup
    \/ OpFails
    \/ RunStart
    \/ RunParseArgs
    \/ RunReadData
    \/ RunLogArgs
    \/ RunFit
    \/ RunRecommend
    \/ RunEvaluate
    \/ RunLogMetrics
    \/ RunSaveModel
    \/ RunFails

Spec == Init /\ [][Next]_vars

(***************************************************************************)
(* The build pipeline's triggers (the pipeline YAML): a pull request       *)
(* against a branch of `pr`, or a commit to a branch of `trigger`, starts  *)
(* the build.                                                              *)
(***************************************************************************)
MaxCiEvents == 3

Branches == {"main", "staging", "feature", "release"}

\* A faulty list: staging dropped from pr.
PrBranchesMainOnly == {"main"}

PrBranches == {"main", "staging"}

TriggerBranches == {"staging", "main"}

Triggers(e) ==
    IF e.kind = "pr" THEN e.branch \in PrBranches ELSE e.branch \in TriggerBranches

\* The builds after the pipeline runner has seen event e.
BuildsAfter(e) ==
    IF Triggers(e)
    THEN Append(ciBuilds, [kind |-> e.kind, branch |-> e.branch,
                           event |-> Len(ciEvents) + 1])
    ELSE ciBuilds

\* A pull request is opened against branch b.
PullRequest ==
    \E b \in Branches :
        /\ Len(ciEvents) < MaxCiEvents
        /\ ciEvents' = Append(ciEvents, [kind |-> "pr", branch |-> b])
        /\ ciBuilds' = BuildsAfter([kind |-> "pr", branch |-> b])
        /\ UNCHANGED programVars

\* A commit is pushed to branch b.
Commit ==
    \E b \in Branches :
        /\ Len(ciEvents) < MaxCiEvents
        /\ ciEvents' = Append(ciEvents, [kind |-> "commit", branch |-> b])
        /\ ciBuilds' = BuildsAfter([kind |-> "commit", branch |-> b])
        /\ UNCHANGED programVars

\* The repository as checked out, the notebook not run.
InitCI ==
    /\ Init
    /\ TOP_K = TOP_K_DEFAULT
    /\ lib_top_k = TOP_K_DEFAULT
    /\ MOVIELENS_DATA_SIZE = "100k"
    /\ ~wsExists
    /\ clusters = {}

NextCI ==
    \/ PullRequest
    \/ Commit

SpecCI == InitCI /\ [][NextCI]_vars

(***************************************************************************)
(* Properties                                                              *)
(***************************************************************************)
Did(op, ok) == \E i \in 1..Len(log) : log[i] = [op |-> op, ok |-> ok]

Returned(op) == log' = Append(log, [op |-> op, ok |-> TRUE])

AfterCompute == {"script_dir", "write_train", "copy_utils", "estimator", "submit",
                 "monitor", "show_run", "get_metrics", "cleanup"}

\* C1: when the lookup of CLUSTER_NAME succeeds (the cluster exists), the step
\* binds compute_target to the existing cluster, issues no ComputeTarget.create
\* and no wait_for_completion, and leaves the workspace's clusters as they were.
C1_LookupSucceeds ==
    /\ [](Did("lookup", TRUE) =>
            /\ compute_target = CLUSTER_NAME
            /\ CLUSTER_NAME \in clusters
            /\ createCalls = <<>>
            /\ waitCalls = 0)
    /\ [][Returned("lookup") =>
            /\ CLUSTER_NAME \in clusters
            /\ clusters' = clusters
            /\ createCalls' = createCalls
            /\ waitCalls' = waitCalls]_vars

C1_Witness ==
    /\ Did("lookup", TRUE)
    /\ pc = "script_dir"
    /\ compute_target = CLUSTER_NAME

\* C2: when the lookup fails, for whatever cause, the step issues exactly one
\* ComputeTarget.create, for CLUSTER_NAME with min_nodes 0 and max_nodes 2, and
\* no later step runs before wait_for_completion has returned.
C2_LookupFails ==
    Did("lookup", FALSE) =>
        /\ pc = "create" => (createCalls = <<>> /\ waitCalls = 0)
        /\ pc # "create" =>
            /\ Len(createCalls) = 1
            /\ createCalls[1].name = "cpucluster"
            /\ createCalls[1].min_nodes = 0
            /\ createCalls[1].max_nodes = 2
        /\ waitCalls <= 1
        /\ (pc \in AfterCompute \cup {"done"} \/ \E i \in 1..Len(log) : log[i].op \in AfterCompute) =>
            /\ waitCalls = 1
            /\ \E i \in 1..Len(log) :
                /\ log[i] = [op |-> "wait", ok |-> TRUE]
                /\ \A j \in 1..Len(log) : log[j].op \in AfterCompute => i < j

C2_Witness ==
    /\ Did("lookup", FALSE)
    /\ Did("wait", TRUE)
    /\ pc = "script_dir"
    /\ CLUSTER_NAME \in clusters

\* C3: an operation other than the lookup that fails is the last operation of
\* the workflow: it is not attempted again and no later step is executed.
C3_NoRetryNoFallback ==
    /\ \A i \in 1..Len(log) :
        (~log[i].ok /\ log[i].op # "lookup") => (i = Len(log) /\ pc = "failed")
    /\ \A i, j \in 1..Len(log) : i # j => log[i].op # log[j].op
    /\ pc = "failed" => (Len(log) > 0 /\ ~log[Len(log)].ok)

C3_Witness ==
    /\ pc = "failed"
    /\ Did("wait", FALSE)
    /\ ~Did("script_dir", TRUE)

\* The step of the workflow an operation belongs to: 1 workspace creation,
\* 2 datastore upload, 3 compute target, 4 training-script generation,
\* 5 estimator submission, 6 run monitoring, 7 metric retrieval, 8 cleanup.
StepOf(op) ==
    CASE op = "workspace"                                   -> 1
      [] op \in {"tmpdir", "load_data", "upload"}           -> 2
      [] op \in {"lookup", "create", "wait"}                -> 3
      [] op \in {"script_dir", "write_train", "copy_utils"} -> 4
      [] op \in {"estimator", "submit"}                     -> 5
      [] op \in {"monitor", "show_run"}                     -> 6
      [] op = "get_metrics"                                 -> 7
      [] op = "cleanup"                                     -> 8

\* C4: the steps run in the order workspace, datastore upload, compute target,
\* script generation, estimator submission, monitoring, metric retrieval,
\* cleanup; a step starts only after the previous one returned, and a run that
\* reaches the end has executed all eight.
C4_StepOrdering ==
    /\ Len(log) > 0 => StepOf(log[1].op) = 1
    /\ \A i \in 1..(Len(log) - 1) :
        \/ StepOf(log[i + 1].op) = StepOf(log[i].op)
        \/ StepOf(log[i + 1].op) = StepOf(log[i].op) + 1 /\ log[i].ok
    /\ pc \in Ops => (\A i \in 1..Len(log) : StepOf(log[i].op) <= StepOf(pc))
    /\ pc = "done" =>
        \A s \in 1..8 : \E i \in 1..Len(log) : StepOf(log[i].op) = s /\ log[i].ok

C4_Witness ==
    /\ pc = "done"
    /\ Did("cleanup", TRUE)
    /\ Did("wait", TRUE)

\* C5 as stated: once exp.submit has returned, the remote run is in a terminal
\* state (so metric retrieval and cleanup follow its completion).
C5_SubmitBlocks ==
    Did("submit", TRUE) => runStatus \in Terminal

\* C5, amended: exp.submit returns with the run queued, not terminated; metric
\* retrieval and cleanup run only after the submission has returned.
C5_SubmitReturnsQueued ==
    /\ [][Returned("submit") => (runStatus' = "Queued" /\ runStatus' \notin Terminal)]_vars
    /\ []((Did("get_metrics", TRUE) \/ Did("cleanup", TRUE)) =>
            (Did("submit", TRUE) /\ runStatus # "NotSubmitted"))

C5_Witness ==
    /\ pc = "done"
    /\ Did("get_metrics", TRUE)
    /\ Did("cleanup", TRUE)
    /\ runStatus = "Running"

C7_UploadedToData ==
    Did("upload", TRUE) => ("data/" \o DataFileName(MOVIELENS_DATA_SIZE)) \in datastore

\* C8: after the workspace step the configuration has been written to
\* aml_config/config.json.
C8_ConfigSaved ==
    Did("workspace", TRUE) => CONFIG_FILE \in cwdFiles

\* C9: run.get_metrics() called before the remote run has completed returns
\* empty metrics.
C9_MetricsEmptyBeforeCompletion ==
    [][(Returned("get_metrics") /\ runStatus \in {"Queued", "Running"}) =>
            metrics' = {}]_vars

\* C10: the number of items requested from recommend_k_items is the --top-k
\* value, the k of map, ndcg, precision and recall.
C10_TopKGoverns ==
    runStep \in {"eval", "log_metrics", "save", "end"} => recK = args["--top-k"]

\* C11: a pull request against branch b starts the build if and only if b is
\* main or staging, and so does a commit to branch b; an event on any other
\* branch starts no build.
C11_CiTriggers ==
    /\ \A i \in 1..Len(ciEvents) :
        (\E j \in 1..Len(ciBuilds) : ciBuilds[j].event = i)
            <=> ciEvents[i].branch \in {"main", "staging"}
    /\ \A j \in 1..Len(ciBuilds) :
        /\ ciBuilds[j].event \in 1..Len(ciEvents)
        /\ ciEvents[ciBuilds[j].event] =
                [kind |-> ciBuilds[j].kind, branch |-> ciBuilds[j].branch]
        /\ \A k \in 1..Len(ciBuilds) : ciBuilds[k].event = ciBuilds[j].event => k = j

C11_Witness ==
    /\ \E j \in 1..Len(ciBuilds) : ciBuilds[j].kind = "pr" /\ ciBuilds[j].branch = "staging"
    /\ \E j \in 1..Len(ciBuilds) : ciBuilds[j].kind = "commit" /\ ciBuilds[j].branch = "main"
    /\ \E i \in 1..Len(ciEvents) :
        /\ ciEvents[i].branch = "feature"
        /\ \A j \in 1..Len(ciBuilds) : ciBuilds[j].event # i

\* C12: the dataset pickle, train.py and the copy of reco_utils are created
\* under tmp_dir and nowhere else on the local machine; tmp_dir.cleanup() runs
\* only after the estimator has been submitted; after cleanup none of the
\* files remains.
C12_TmpDirConfinement ==
    /\ cwdFiles = {}
    /\ tmpFiles # {} => tmp_dir = "open"
    /\ tmpFiles \subseteq {DataFileName(MOVIELENS_DATA_SIZE), "movielens-sar",
                           "movielens-sar/train.py", "movielens-sar/reco_utils"}
    /\ (tmp_dir = "open" /\ Did("load_data", TRUE)) =>
            DataFileName(MOVIELENS_DATA_SIZE) \in tmpFiles
    /\ (tmp_dir = "open" /\ Did("write_train", TRUE)) =>
            "movielens-sar/train.py" \in tmpFiles
    /\ (tmp_dir = "open" /\ Did("copy_utils", TRUE)) =>
            "movielens-sar/reco_utils" \in tmpFiles
    /\ (pc = "cleanup" \/ Did("cleanup", TRUE) \/ Did("cleanup", FALSE)) =>
            (Did("submit", TRUE) /\ runStatus # "NotSubmitted")
    /\ Did("cleanup", TRUE) => (tmp_dir = "cleaned" /\ tmpFiles = {})

C12_Witness ==
    /\ pc = "done"
    /\ Did("write_train", TRUE)
    /\ Did("copy_utils", TRUE)
    /\ Did("cleanup", TRUE)
    /\ tmpFiles = {}

====
